---------------------------- MODULE Spec2Model ----------------------------
(* Verification model of the grading engine of rsalesc/codefreaker:        *)
(* the checker protocol (codefreaker/box/checkers.py), the evaluation      *)
(* pipeline and the solution report (robox/box/solutions.py) and the       *)
(* expected-outcome policy (codefreaker/box/schema.py).                    *)
(*                                                                         *)
(* Conventions.                                                            *)
(*  - An Optional[X] value is a sequence of length at most one: <<>> is    *)
(*    None and <<x>> is the value x.                                       *)
(*  - RunLog.time is a float number of seconds in the code.  The model     *)
(*    counts it in half-milliseconds, so that `time * 1000 > timeLimit`    *)
(*    is `time > 2 * timeLimit` and `int(time * 1000)` is `time \div 2`.   *)
(*    Limits (timeLimit, wallTimeLimit) are in milliseconds as in the code.*)
EXTENDS Integers, Sequences, FiniteSets, TLC

(***************************************************************************)
(* Bounds of the model                                                     *)
(***************************************************************************)
\* pkg.timeLimit (ms) and pkg.memoryLimit (MiB) of the package under test
TimeLimit == 2
MemoryLimit == 2
\* number of testcases of the (single) testcase group
MaxTests == 2

(***************************************************************************)
(* Enumerations                                                            *)
(***************************************************************************)
EXIT_SANDBOX_ERROR == "sandbox error"
EXIT_OK == "ok"
EXIT_SIGNAL == "signal"
EXIT_TIMEOUT == "timeout"
EXIT_TIMEOUT_WALL == "wall timeout"
EXIT_NONZERO_RETURN == "nonzero return"
\* check() reads SandboxBase.EXIT_MEMORY_LIMIT_EXCEEDED (checkers.py line 35);
\* sandbox.py lines 94-99 declare the six statuses above only, this seventh
\* one is the MEMORY_LIMIT_EXCEEDED classification of the specification
EXIT_MEMORY_LIMIT_EXCEEDED == "memory limit exceeded"

ExitStatuses ==
    {EXIT_SANDBOX_ERROR, EXIT_OK, EXIT_SIGNAL, EXIT_TIMEOUT, EXIT_TIMEOUT_WALL,
     EXIT_NONZERO_RETURN, EXIT_MEMORY_LIMIT_EXCEEDED}

Outcome ==
    {"ACCEPTED", "WRONG_ANSWER", "RUNTIME_ERROR", "TIME_LIMIT_EXCEEDED",
     "MEMORY_LIMIT_EXCEEDED", "JUDGE_FAILED", "INTERNAL_ERROR"}

ExpectedOutcome ==
    {"ACCEPTED", "WRONG_ANSWER", "INCORRECT", "RUNTIME_ERROR",
     "TIME_LIMIT_EXCEEDED", "MEMORY_LIMIT_EXCEEDED", "TLE_OR_RTE"}

\* VerificationLevel: an ordered enumeration; only NONE and FULL are used
VL_NONE == 0
VL_FULL == 2
VerificationLevel == 0..3

\* ExpectedOutcome.match(self, outcome)
match(self, outcome) ==
    CASE self = "ACCEPTED" -> outcome = "ACCEPTED"
      [] self = "WRONG_ANSWER" -> outcome = "WRONG_ANSWER"
      [] self = "INCORRECT" ->
            outcome \in {"WRONG_ANSWER", "RUNTIME_ERROR",
                         "MEMORY_LIMIT_EXCEEDED", "TIME_LIMIT_EXCEEDED"}
      [] self = "RUNTIME_ERROR" -> outcome = "RUNTIME_ERROR"
      [] self = "TIME_LIMIT_EXCEEDED" -> outcome = "TIME_LIMIT_EXCEEDED"
      [] self = "MEMORY_LIMIT_EXCEEDED" -> outcome = "MEMORY_LIMIT_EXCEEDED"
      [] self = "TLE_OR_RTE" -> outcome \in {"TIME_LIMIT_EXCEEDED", "RUNTIME_ERROR"}
      [] OTHER -> FALSE

(***************************************************************************)
(* Checker protocol: check()                                               *)
(***************************************************************************)
\* CheckerResult(outcome=o): the message keeps its default, None
CheckerResult(o, msg, inv) ==
    [raised |-> FALSE, outcome |-> o, message |-> msg, invoked |-> inv]

\* check() did not return: an exception left it
CheckRaised == [raised |-> TRUE, outcome |-> "none", message |-> <<>>, invoked |-> FALSE]

\* the three positional arguments given to the checker program
CheckerArgs_c13 == <<"input.txt", "expected.txt", "output.txt">>

CheckerArgs == <<"input.txt", "output.txt", "expected.txt">>

\* the files staged for the checker: sandbox name |-> what it holds
CheckerInputs ==
    [x \in {"input.txt", "expected.txt", "output.txt"} |->
        CASE x = "input.txt" -> "testcase.inputPath"
          [] x = "expected.txt" -> "testcase.outputPath"
          [] x = "output.txt" -> "program_output"]

\* lines 31-38 of check(): the outcome the solution's own exit status
\* decides, <<>> when it decides none
status_outcome_c2(rl) ==
    IF rl.exitstatus \in {EXIT_SIGNAL, EXIT_NONZERO_RETURN} THEN <<"RUNTIME_ERROR">>
    ELSE IF rl.exitstatus \in {EXIT_TIMEOUT} THEN <<"TIME_LIMIT_EXCEEDED">>
    ELSE IF rl.exitstatus = EXIT_MEMORY_LIMIT_EXCEEDED THEN <<"MEMORY_LIMIT_EXCEEDED">>
    ELSE IF rl.exitstatus = EXIT_SANDBOX_ERROR THEN <<"INTERNAL_ERROR">>
    ELSE <<>>

status_outcome(rl) ==
    IF rl.exitstatus \in {EXIT_SIGNAL, EXIT_NONZERO_RETURN} THEN <<"RUNTIME_ERROR">>
    ELSE IF rl.exitstatus \in {EXIT_TIMEOUT, EXIT_TIMEOUT_WALL} THEN <<"TIME_LIMIT_EXCEEDED">>
    ELSE IF rl.exitstatus = EXIT_MEMORY_LIMIT_EXCEEDED THEN <<"MEMORY_LIMIT_EXCEEDED">>
    ELSE IF rl.exitstatus = EXIT_SANDBOX_ERROR THEN <<"INTERNAL_ERROR">>
    ELSE <<>>

\* line 40 of check(): run_log.time * 1000 > pkg.timeLimit
time_exceeded_c3(rl) == rl.time >= 2 * TimeLimit

time_exceeded(rl) == rl.time > 2 * TimeLimit

\* lines 66-75 of check(): the result once run_item was called for the
\* checker program; checker_run is what run_item gave back, <<>> for None,
\* else <<[exitstatus, exitcode, stderr, stdout]>>
checker_outcome_c1(checker_run) ==
    IF checker_run = <<>> \/ checker_run[1].exitcode \notin {0, 1, 2, 3}
      THEN CheckerResult("INTERNAL_ERROR", <<>>, TRUE)
    ELSE LET message == <<checker_run[1].stderr>> IN
      IF checker_run[1].exitcode \in {1}
        THEN CheckerResult("WRONG_ANSWER", message, TRUE)
      ELSE IF checker_run[1].exitcode = 3
        THEN CheckerResult("JUDGE_FAILED", message, TRUE)
      ELSE CheckerResult("ACCEPTED", message, TRUE)

checker_outcome_c11(checker_run) ==
    IF checker_run = <<>> THEN CheckRaised
    ELSE IF checker_run[1].exitcode \notin {0, 1, 2, 3}
      THEN CheckerResult("INTERNAL_ERROR", <<>>, TRUE)
    ELSE LET message == <<checker_run[1].stderr>> IN
      IF checker_run[1].exitcode \in {1, 2}
        THEN CheckerResult("WRONG_ANSWER", message, TRUE)
      ELSE IF checker_run[1].exitcode = 3
        THEN CheckerResult("JUDGE_FAILED", message, TRUE)
      ELSE CheckerResult("ACCEPTED", message, TRUE)

checker_outcome_c10(checker_run) ==
    IF checker_run = <<>> \/ checker_run[1].exitcode \notin {0, 1, 2}
      THEN CheckerResult("INTERNAL_ERROR", <<>>, TRUE)
    ELSE LET message == <<checker_run[1].stderr>> IN
      IF checker_run[1].exitcode \in {1, 2}
        THEN CheckerResult("WRONG_ANSWER", message, TRUE)
      ELSE CheckerResult("ACCEPTED", message, TRUE)

checker_outcome(checker_run) ==
    IF checker_run = <<>> \/ checker_run[1].exitcode \notin {0, 1, 2, 3}
      THEN CheckerResult("INTERNAL_ERROR", <<>>, TRUE)
    ELSE LET message == <<checker_run[1].stderr>> IN
      IF checker_run[1].exitcode \in {1, 2}
        THEN CheckerResult("WRONG_ANSWER", message, TRUE)
      ELSE IF checker_run[1].exitcode = 3
        THEN CheckerResult("JUDGE_FAILED", message, TRUE)
      ELSE CheckerResult("ACCEPTED", message, TRUE)

\* check(checker_digest, run_log, testcase, program_output): run_log is the
\* Optional run log of the solution, checker_run what run_item gives back
\* for the checker program if check() gets to call it.  `invoked` records
\* whether run_item was called for the checker.  A run_log of None makes
\* `run_log.exitstatus` raise at line 31.
check_c8(run_log, checker_run) ==
    IF run_log = <<>> THEN CheckerResult("INTERNAL_ERROR", <<>>, FALSE)
    ELSE IF status_outcome(run_log[1]) # <<>>
      THEN CheckerResult(status_outcome(run_log[1])[1], <<>>, FALSE)
    ELSE IF time_exceeded(run_log[1])
      THEN CheckerResult("TIME_LIMIT_EXCEEDED", <<>>, FALSE)
    ELSE checker_outcome(checker_run)

check(run_log, checker_run) ==
    IF run_log = <<>> THEN CheckRaised
    ELSE IF status_outcome(run_log[1]) # <<>>
      THEN CheckerResult(status_outcome(run_log[1])[1], <<>>, FALSE)
    ELSE IF time_exceeded(run_log[1])
      THEN CheckerResult("TIME_LIMIT_EXCEEDED", <<>>, FALSE)
    ELSE checker_outcome(checker_run)

(***************************************************************************)
(* Input domains                                                           *)
(***************************************************************************)
\* observed times, in half-milliseconds: 0, exactly the limit, half a
\* millisecond above it, one and a half times the limit, twice the limit,
\* and above twice the limit
Times == {0, 2 * TimeLimit, 2 * TimeLimit + 1, 3 * TimeLimit,
          4 * TimeLimit, 4 * TimeLimit + 1}

ExitCodes == {0, 1, 2, 3, 4, 42}

\* a process the sandbox stopped has no exit code of its own:
\* get_exit_code() returns "exitcode, or 0"
CodesOf(status) ==
    IF status = EXIT_NONZERO_RETURN THEN ExitCodes \ {0} ELSE {0}

\* the run logs a solution's run can give
RunLogs ==
    {[exitstatus |-> s, exitcode |-> c, time |-> t] :
        s \in ExitStatuses, c \in ExitCodes, t \in Times}

SolutionRunLogs == {rl \in RunLogs : rl.exitcode \in CodesOf(rl.exitstatus)}

\* the run logs of the checker program, with what it wrote
CheckerRuns ==
    {[exitstatus |-> s, exitcode |-> c, stderr |-> e, stdout |-> o] :
        s \in ExitStatuses, c \in ExitCodes,
        e \in {"", "wrong answer on token 1"}, o \in {"", "ok"}}

CheckerRunLogs ==
    {cr \in CheckerRuns :
        /\ cr.exitcode \in CodesOf(cr.exitstatus)
        \* a checker that could not start wrote nothing
        /\ cr.exitstatus = EXIT_SANDBOX_ERROR => cr.stderr = "" /\ cr.stdout = ""}

Opt(S) == {<<>>} \cup {<<x>> : x \in S}

(***************************************************************************)
(* run_solution(): the sandbox limits of a solution's run                  *)
(***************************************************************************)
\* lines 66-72 of run_solution(): the EnvironmentSandbox put in extra_config
solution_sandbox_c6(verification) ==
    [timeLimit |-> IF verification > VL_FULL THEN TimeLimit * 2 ELSE TimeLimit,
     wallTimeLimit |-> TimeLimit * 2,
     memoryLimit |-> MemoryLimit]

solution_sandbox(verification) ==
    [timeLimit |-> IF verification >= VL_FULL THEN TimeLimit * 2 ELSE TimeLimit,
     wallTimeLimit |-> TimeLimit * 2,
     memoryLimit |-> MemoryLimit]

\* what the solution does on one testcase when nothing stops it: cpu and
\* wall are the CPU and wall-clock time it takes (half-milliseconds), mem
\* its peak memory (MiB); env is what the sandbox infrastructure does:
\* "ok", "sandbox error" (the isolation mechanism failed) or "none" (the
\* sandbox could not be initialized)
Proc(cpu, wall, mem, signal, exitcode, output, env) ==
    [cpu |-> cpu, wall |-> wall, mem |-> mem, signal |-> signal,
     exitcode |-> exitcode, output |-> output, env |-> env]

Procs ==
    \* computes for the whole time, prints a right or a wrong answer
    {Proc(t, t, MemoryLimit, FALSE, 0, o, "ok") : t \in Times, o \in {"right", "wrong"}}
    \* sleeps, then prints the right answer
    \cup {Proc(0, w, MemoryLimit, FALSE, 0, "right", "ok") :
            w \in {3 * TimeLimit, 4 * TimeLimit + 1}}
    \* uses too much memory, is killed by a signal, exits with 1
    \cup {Proc(0, 0, MemoryLimit + 1, FALSE, 0, "right", "ok"),
          Proc(0, 0, MemoryLimit, TRUE, 0, "wrong", "ok"),
          Proc(0, 0, MemoryLimit, FALSE, 1, "wrong", "ok")}
    \* the sandbox fails
    \cup {Proc(0, 0, MemoryLimit, FALSE, 0, "right", e) : e \in {"sandbox error", "none"}}

\* the exit classification of the sandbox (section 4.1 of the specification)
exit_status(proc, limits) ==
    IF proc.env = "sandbox error" THEN EXIT_SANDBOX_ERROR
    ELSE IF proc.cpu > 2 * limits.timeLimit THEN EXIT_TIMEOUT
    ELSE IF proc.wall > 2 * limits.wallTimeLimit THEN EXIT_TIMEOUT_WALL
    ELSE IF proc.mem > limits.memoryLimit THEN EXIT_MEMORY_LIMIT_EXCEEDED
    ELSE IF proc.signal THEN EXIT_SIGNAL
    ELSE IF proc.exitcode # 0 THEN EXIT_NONZERO_RETURN
    ELSE EXIT_OK

\* run_item(solution, ..., extra_config=extra_config): None when the sandbox
\* could not be initialized, else the RunLog; the fields extra_config sets
\* override the language's execution config
run_item(proc, extra_config) ==
    IF proc.env = "none" THEN <<>>
    ELSE LET status == exit_status(proc, extra_config) IN
         <<[exitstatus |-> status,
            exitcode |-> IF status = EXIT_NONZERO_RETURN THEN proc.exitcode ELSE 0,
            time |-> proc.cpu]>>

\* the checker behaviours tried in the pipeline
PipelineCheckerRuns ==
    {cr \in CheckerRunLogs :
        /\ cr.stdout = ""
        /\ cr.exitstatus \in {EXIT_OK, EXIT_NONZERO_RETURN, EXIT_SIGNAL}
        /\ cr.exitcode \in {0, 1, 3, 42}
        /\ cr.stderr = IF cr.exitcode = 1 THEN "wrong answer on token 1" ELSE ""}

(***************************************************************************)
(* The solution report                                                     *)
(***************************************************************************)
Max(S) == CHOOSE x \in S : \A y \in S : y <= x

\* lines 207-210 of _print_solution_outcome()
bad_verdicts_c4(evals) ==
    {evals[k].result.outcome : k \in DOMAIN evals}

bad_verdicts(evals) ==
    {evals[k].result.outcome : k \in DOMAIN evals} \ {"ACCEPTED"}

\* lines 212-214
unmatched_bad_verdicts_c14(solution, evals) ==
    {v \in bad_verdicts(evals) : match(solution.outcome, v)}

unmatched_bad_verdicts(solution, evals) ==
    {v \in bad_verdicts(evals) : ~match(solution.outcome, v)}

\* _get_evals_time_in_ms(): max(int((eval.log.time or 0.0) * 1000))
_get_evals_time_in_ms(evals) ==
    Max({IF evals[k].log = <<>> THEN 0 ELSE evals[k].log[1].time \div 2 :
            k \in DOMAIN evals})

\* _print_solution_outcome(solution, evals, timeLimit, console, verification):
\* what it prints (the status word, the unmatched verdicts after "got:",
\* whether the double-TL warning is printed, the time) and what it returns
_print_solution_outcome(solution, evals, timeLimit, verification) ==
    LET unmatched == unmatched_bad_verdicts(solution, evals)
        matched == bad_verdicts(evals) \ unmatched
        evals_time == _get_evals_time_in_ms(evals)
    IN [status |-> IF unmatched # {} THEN "FAILED" ELSE "OK",
        expected |-> solution.outcome,
        got |-> unmatched,
        warning |-> /\ matched \ {"TIME_LIMIT_EXCEEDED"} = {}
                    /\ verification >= VL_FULL
                    /\ evals_time > timeLimit
                    /\ evals_time < timeLimit * 2,
        time |-> evals_time,
        returned |-> Cardinality(unmatched) = 0]

(***************************************************************************)
(* State                                                                   *)
(***************************************************************************)
VARIABLES
    pc,              \* position of the program
    verification,    \* the VerificationLevel of the invocation
    solution,        \* the solution under evaluation: [outcome]
    extra_config,    \* Optional sandbox limits run_solution configured
    tc,              \* index of the current testcase
    proc,            \* Optional behaviour of the solution on the testcase
    sol_call,        \* Optional arguments of run_item for the solution
    run_log,         \* Optional RunLog of the solution's run
    checker_run,     \* Optional run log of the checker program
    chk_call,        \* Optional arguments of run_item for the checker
    checker_result,  \* Optional result of check()
    evals,           \* res[group.name]: the Evaluations appended so far
    logs,            \* the log files written so far, by testcase index
    report,          \* Optional result of _print_solution_outcome()
    env_cfg,         \* Optional environment default compilation/execution config
    lang_cfg,        \* Optional compilation/execution config of the language
    env_mapping,     \* Optional environment.defaultFileMapping
    lang_mapping,    \* Optional fileMapping of the language
    resolved,        \* Optional result of the get_*_config / get_file_mapping call
    truncator,       \* the Truncator: [fobj: the wrapped file, size]
    prefix_file,     \* a file holding the first size bytes of the wrapped file
    truncator_ret,   \* Optional result of the last call on the Truncator
    prefix_ret,      \* Optional result of the same call on prefix_file
    wrapped_content, \* the bytes of the wrapped file
    trunc_call,      \* Optional last call on the Truncator: [op, args]
    fs,              \* the filesystem: Optional file at each file path
    touched,         \* Optional system path the last file operation acted on
    file_ret,        \* Optional result of the last file operation
    params,          \* the SandboxParams of the sandbox: [max_processes]
    multiprocess,    \* the arguments of the set_multiprocess calls, in order
    file_call,       \* Optional last staging call on the sandbox: [op, arguments]
    storage,         \* the file cacher's store: the content of each digest
    invocation,      \* the command run, its options and what its steps meet
    box,             \* Optional sandbox the command created
    atexit_handlers, \* the handlers registered with atexit, in order
    process,         \* whether the command's process runs, exited or was replaced
    pkg,             \* the package: [solutions: their number, testcases: the groups]
    tracked_solutions, \* Optional set of the solutions to run
    compilations,    \* the programs compiled so far, in order
    sol_index,       \* index of the current solution in pkg.solutions
    group_index,     \* position of the current group in pkg.testcases
    test_index,      \* index of the current testcase in its group
    writes,          \* the files written under the runs directory, in order
    res,             \* run_solution's res: the Evaluations by group name
    run_results,     \* run_solutions' res: one dict per solution so far
    trace,           \* the steps taken on the testcases, in order
    solutions,       \* pkg.solutions of the reported package: the declarations
    evals_per_solution, \* the argument of print_run_report: one dict per solution
    s_index,         \* index of the solution print_run_report is at
    ok,              \* print_run_report's ok
    printed,         \* what print_run_report printed, in order
    report_ret,      \* Optional value print_run_report returned
    builder_list,    \* BUILDER_LIST: the builders, [input_type, output_type]
    input_type,      \* the input_type argument of get_implicit_builders
    output_type,     \* the output_type argument of get_implicit_builders
    par,             \* par: Optional position of a builder, by type reached
    cur,             \* cur: the type the walk back from output_type is at
    chain,           \* res: the positions of the builders appended so far
    builders_ret     \* Optional value get_implicit_builders returned

grading_vars == <<verification, solution, extra_config, tc, proc, sol_call,
                  run_log, checker_run, chk_call, checker_result, evals, logs,
                  report>>
merge_vars == <<env_cfg, lang_cfg, env_mapping, lang_mapping, resolved>>
trunc_vars == <<truncator, prefix_file, truncator_ret, prefix_ret, wrapped_content,
                trunc_call>>
file_vars == <<fs, touched, file_ret, params, multiprocess, file_call, storage>>
cmd_vars == <<invocation, box, atexit_handlers, process>>
run_vars == <<pkg, tracked_solutions, compilations, sol_index, group_index,
              test_index, writes, res, run_results, trace>>
report_vars == <<solutions, evals_per_solution, s_index, ok, printed, report_ret>>
builder_vars == <<builder_list, input_type, output_type, par, cur, chain,
                  builders_ret>>

vars == <<pc, grading_vars, merge_vars, trunc_vars, file_vars, cmd_vars, run_vars,
          report_vars, builder_vars>>

\* the variables of the parts of the program a specification leaves alone
GradingRestIdle ==
    /\ solution = [outcome |-> "ACCEPTED"]
    /\ extra_config = <<>>
    /\ tc = 0
    /\ proc = <<>>
    /\ sol_call = <<>>
    /\ run_log = <<>>
    /\ checker_run = <<>>
    /\ chk_call = <<>>
    /\ checker_result = <<>>
    /\ evals = <<>>
    /\ logs = <<>>
    /\ report = <<>>
GradingIdle ==
    /\ verification = VL_NONE
    /\ GradingRestIdle
MergeIdle ==
    /\ env_cfg = <<>>
    /\ lang_cfg = <<>>
    /\ env_mapping = <<>>
    /\ lang_mapping = <<>>
    /\ resolved = <<>>
TruncIdle ==
    /\ truncator = [fobj |-> [len |-> 0, pos |-> 0], size |-> 0]
    /\ prefix_file = [len |-> 0, pos |-> 0]
    /\ truncator_ret = <<>>
    /\ prefix_ret = <<>>
    /\ wrapped_content = <<>>
    /\ trunc_call = <<>>
FileIdle ==
    /\ fs = <<>>
    /\ touched = <<>>
    /\ file_ret = <<>>
    /\ params = <<>>
    /\ multiprocess = <<>>
    /\ file_call = <<>>
    /\ storage = <<>>
CmdIdle ==
    /\ invocation = <<>>
    /\ box = <<>>
    /\ atexit_handlers = <<>>
    /\ process = "running"
RunIdle ==
    /\ pkg = <<>>
    /\ tracked_solutions = <<>>
    /\ compilations = <<>>
    /\ sol_index = 0
    /\ group_index = 0
    /\ test_index = 0
    /\ writes = <<>>
    /\ res = <<>>
    /\ run_results = <<>>
    /\ trace = <<>>
ReportIdle ==
    /\ solutions = <<>>
    /\ evals_per_solution = <<>>
    /\ s_index = 0
    /\ ok = TRUE
    /\ printed = <<>>
    /\ report_ret = <<>>
BuilderIdle ==
    /\ builder_list = <<>>
    /\ input_type = "TeX"
    /\ output_type = "TeX"
    /\ par = <<>>
    /\ cur = "TeX"
    /\ chain = <<>>
    /\ builders_ret = <<>>
not_grading_vars ==
    <<merge_vars, trunc_vars, file_vars, cmd_vars, run_vars, report_vars,
      builder_vars>>
NotGradingIdle ==
    MergeIdle /\ TruncIdle /\ FileIdle /\ CmdIdle /\ RunIdle /\ ReportIdle
    /\ BuilderIdle
not_merge_vars ==
    <<grading_vars, trunc_vars, file_vars, cmd_vars, run_vars, report_vars,
      builder_vars>>
NotMergeIdle ==
    GradingIdle /\ TruncIdle /\ FileIdle /\ CmdIdle /\ RunIdle /\ ReportIdle
    /\ BuilderIdle
not_trunc_vars ==
    <<grading_vars, merge_vars, file_vars, cmd_vars, run_vars, report_vars,
      builder_vars>>
NotTruncIdle ==
    GradingIdle /\ MergeIdle /\ FileIdle /\ CmdIdle /\ RunIdle /\ ReportIdle
    /\ BuilderIdle
not_file_vars ==
    <<grading_vars, merge_vars, trunc_vars, cmd_vars, run_vars, report_vars,
      builder_vars>>
NotFileIdle ==
    GradingIdle /\ MergeIdle /\ TruncIdle /\ CmdIdle /\ RunIdle /\ ReportIdle
    /\ BuilderIdle
not_cmd_vars ==
    <<grading_vars, merge_vars, trunc_vars, file_vars, run_vars, report_vars,
      builder_vars>>
NotCmdIdle ==
    GradingIdle /\ MergeIdle /\ TruncIdle /\ FileIdle /\ RunIdle /\ ReportIdle
    /\ BuilderIdle
not_run_vars ==
    <<grading_vars, merge_vars, trunc_vars, file_vars, cmd_vars, report_vars,
      builder_vars>>
NotRunIdle ==
    GradingIdle /\ MergeIdle /\ TruncIdle /\ FileIdle /\ CmdIdle /\ ReportIdle
    /\ BuilderIdle
not_report_vars ==
    <<grading_vars, merge_vars, trunc_vars, file_vars, cmd_vars, run_vars,
      builder_vars>>
not_builder_vars ==
    <<grading_vars, merge_vars, trunc_vars, file_vars, cmd_vars, run_vars,
      report_vars>>
NotBuilderIdle ==
    GradingIdle /\ MergeIdle /\ TruncIdle /\ FileIdle /\ CmdIdle /\ RunIdle
    /\ ReportIdle
NotReportIdle ==
    GradingIdle /\ MergeIdle /\ TruncIdle /\ FileIdle /\ CmdIdle /\ RunIdle
    /\ BuilderIdle

(***************************************************************************)
(* Evaluation pipeline: run_solution() on one solution, then its report    *)
(***************************************************************************)
Init ==
    /\ pc = "configure"
    /\ verification \in VerificationLevel
    /\ solution \in [outcome : ExpectedOutcome]
    /\ extra_config = <<>>
    /\ tc = 0
    /\ proc = <<>>
    /\ sol_call = <<>>
    /\ run_log = <<>>
    /\ checker_run = <<>>
    /\ chk_call = <<>>
    /\ checker_result = <<>>
    /\ evals = <<>>
    /\ logs = <<>>
    /\ report = <<>>
    /\ NotGradingIdle

\* run_solution(), lines 64-75
Configure ==
    /\ pc = "configure"
    /\ extra_config' = <<solution_sandbox(verification)>>
    /\ pc' = "run"
    /\ UNCHANGED <<verification, solution, tc, proc, sol_call, run_log,
                   checker_run, chk_call, checker_result, evals, logs, report>>
    /\ UNCHANGED not_grading_vars

\* run_solution(), lines 79-98: the solution runs on testcase tc
RunItem ==
    /\ pc = "run"
    /\ \E p \in Procs :
         /\ proc' = <<p>>
         /\ run_log' = run_item(p, extra_config[1])
    /\ sol_call' = <<[extra_config |-> extra_config]>>
    /\ checker_run' = <<>>
    /\ chk_call' = <<>>
    /\ checker_result' = <<>>
    /\ pc' = "check"
    /\ UNCHANGED <<verification, solution, extra_config, tc, evals, logs, report>>
    /\ UNCHANGED not_grading_vars

\* run_solution(), lines 100-105: check() is called; when it calls
\* run_item for the checker, the checker program runs, with no
\* extra_config, on "input.txt output.txt expected.txt"
CheckStep ==
    /\ pc = "check"
    /\ \E cr \in Opt(PipelineCheckerRuns) :
         LET r == check(run_log, cr) IN
           /\ checker_result' = IF r.raised THEN <<>> ELSE <<r>>
           /\ checker_run' = IF r.invoked THEN cr ELSE <<>>
           /\ chk_call' = IF r.invoked
                            THEN <<[extra_config |-> <<>>, extra_args |-> CheckerArgs,
                                    inputs |-> CheckerInputs]>>
                            ELSE <<>>
           /\ pc' = IF r.raised THEN "aborted" ELSE "persist"
    /\ UNCHANGED <<verification, solution, extra_config, tc, proc, sol_call,
                   run_log, evals, logs, report>>
    /\ UNCHANGED not_grading_vars

\* the Evaluation of lines 107-118
Evaluation(result, index, log) ==
    [result |-> [outcome |-> result.outcome, message |-> result.message],
     index |-> index, log |-> log]

\* run_solution(), lines 107-122: the Evaluation is built, written to its
\* log file and appended to the result
Persist ==
    /\ pc = "persist"
    /\ LET eval == Evaluation(checker_result[1], tc, run_log) IN
         /\ logs' = Append(logs, eval)
         /\ evals' = Append(evals, eval)
    /\ tc' = tc + 1
    /\ pc' = IF tc + 1 < MaxTests THEN "run" ELSE "report"
    /\ UNCHANGED <<verification, solution, extra_config, proc, sol_call, run_log,
                   checker_run, chk_call, checker_result, report>>
    /\ UNCHANGED not_grading_vars

\* print_run_report(), lines 272-278, for the solution
Report ==
    /\ pc = "report"
    /\ report' = <<_print_solution_outcome(solution, evals, TimeLimit, verification)>>
    /\ pc' = "done"
    /\ UNCHANGED <<verification, solution, extra_config, tc, proc, sol_call,
                   run_log, checker_run, chk_call, checker_result, evals, logs>>
    /\ UNCHANGED not_grading_vars

Next == Configure \/ RunItem \/ CheckStep \/ Persist \/ Report

Spec == Init /\ [][Next]_vars

(***************************************************************************)
(* Specification of check() alone: every run log, every checker behaviour  *)
(***************************************************************************)
InitCheck ==
    /\ pc = "check"
    /\ run_log \in Opt(SolutionRunLogs)
    /\ checker_run \in Opt(CheckerRunLogs)
    /\ checker_result = <<>>
    /\ verification = VL_NONE
    /\ solution = [outcome |-> "ACCEPTED"]
    /\ extra_config = <<>>
    /\ tc = 0
    /\ proc = <<>>
    /\ sol_call = <<>>
    /\ chk_call = <<>>
    /\ evals = <<>>
    /\ logs = <<>>
    /\ report = <<>>
    /\ NotGradingIdle

Check ==
    /\ pc = "check"
    /\ checker_result' = <<check(run_log, checker_run)>>
    /\ pc' = "checked"
    /\ UNCHANGED <<verification, solution, extra_config, tc, proc, sol_call,
                   run_log, checker_run, chk_call, evals, logs, report>>
    /\ UNCHANGED not_grading_vars

NextCheck == Check

SpecCheck == InitCheck /\ [][NextCheck]_vars

(***************************************************************************)
(* Properties of check()                                                   *)
(***************************************************************************)
Checked == pc = "checked" /\ run_log # <<>>
Res == checker_result[1]
RunOkInTime ==
    Checked /\ run_log[1].exitstatus = EXIT_OK /\ run_log[1].time <= 2 * TimeLimit

\* the outcome the checker protocol assigns to an exit code of the checker
DeclaredOutcome(code) ==
    CASE code = 0 -> "ACCEPTED"
      [] code \in {1, 2} -> "WRONG_ANSWER"
      [] code = 3 -> "JUDGE_FAILED"
      [] OTHER -> "INTERNAL_ERROR"

\* C1: when the solution's run ended OK within the nominal time limit and
\* the checker program ran, the outcome is the one its exit code declares
\* (0 ACCEPTED, 1 or 2 WRONG_ANSWER, 3 JUDGE_FAILED, any other code
\* INTERNAL_ERROR), whatever the checker wrote to its stdout.
C1_ExitCodeMapping ==
    (RunOkInTime /\ checker_run # <<>>) =>
        /\ ~Res.raised
        /\ Res.outcome = DeclaredOutcome(checker_run[1].exitcode)

C1_Witness ==
    /\ RunOkInTime /\ checker_run # <<>>
    /\ checker_run[1].exitcode = 42 /\ checker_run[1].stdout = "ok"
    /\ Res.outcome = "INTERNAL_ERROR" /\ Res.invoked

\* C2: for every run log whose exit status is not OK, check() returns
\* without invoking the checker, whatever the observed time is:
\* RUNTIME_ERROR for SIGNAL and NONZERO_RETURN, TIME_LIMIT_EXCEEDED for
\* TIMEOUT and TIMEOUT_WALL, MEMORY_LIMIT_EXCEEDED for the memory-limit
\* status, INTERNAL_ERROR for SANDBOX_ERROR.
C2_StatusShortCircuit ==
    (Checked /\ run_log[1].exitstatus # EXIT_OK) =>
        /\ ~Res.raised /\ ~Res.invoked
        /\ Res.outcome =
             CASE run_log[1].exitstatus \in {EXIT_SIGNAL, EXIT_NONZERO_RETURN}
                    -> "RUNTIME_ERROR"
               [] run_log[1].exitstatus \in {EXIT_TIMEOUT, EXIT_TIMEOUT_WALL}
                    -> "TIME_LIMIT_EXCEEDED"
               [] run_log[1].exitstatus = EXIT_MEMORY_LIMIT_EXCEEDED
                    -> "MEMORY_LIMIT_EXCEEDED"
               [] run_log[1].exitstatus = EXIT_SANDBOX_ERROR -> "INTERNAL_ERROR"

C2_Witness ==
    /\ Checked /\ run_log[1].exitstatus = EXIT_TIMEOUT_WALL
    /\ run_log[1].time = 0
    /\ checker_run # <<>> /\ checker_run[1].exitcode = 1
    /\ Res.outcome = "TIME_LIMIT_EXCEEDED" /\ ~Res.invoked

\* C3: when the exit status is OK and the observed time is strictly above
\* the package's timeLimit, check() returns TIME_LIMIT_EXCEEDED without
\* invoking the checker; when the time is at most the limit the checker is
\* invoked.
C3_TimeLimitShortCircuit ==
    (Checked /\ run_log[1].exitstatus = EXIT_OK) =>
        IF run_log[1].time > 2 * TimeLimit
          THEN Res.outcome = "TIME_LIMIT_EXCEEDED" /\ ~Res.invoked
          ELSE Res.invoked

C3_Witness ==
    /\ Checked /\ run_log[1].exitstatus = EXIT_OK
    /\ run_log[1].time = 2 * TimeLimit
    /\ Res.invoked

\* the checker program could not be run, or did not terminate normally
CheckerFailed ==
    \/ checker_run = <<>>
    \/ checker_run[1].exitstatus \in
         {EXIT_SIGNAL, EXIT_TIMEOUT, EXIT_TIMEOUT_WALL,
          EXIT_MEMORY_LIMIT_EXCEEDED, EXIT_SANDBOX_ERROR}

\* C9: if the checker program could not be run or did not terminate
\* normally, check() returns INTERNAL_ERROR and no other outcome.
C9_CheckerFailureIsInternalError ==
    (RunOkInTime /\ CheckerFailed) => Res.outcome = "INTERNAL_ERROR"

\* C10 (as claimed): every INTERNAL_ERROR of check() comes from a
\* checker-level failure; the solution's run log alone never yields it.
C10_InternalErrorOnlyFromChecker ==
    (Checked /\ Res.outcome = "INTERNAL_ERROR") =>
        /\ Res.invoked
        /\ (checker_run = <<>> \/ checker_run[1].exitcode \notin {0, 1, 2, 3})

\* C10 (amended): an INTERNAL_ERROR of check() comes either from a run log
\* with exit status SANDBOX_ERROR, the checker not being invoked, or from
\* a checker-level failure: the checker was invoked and could not run or
\* exited with an undeclared code.
C10_InternalErrorSources ==
    (Checked /\ Res.outcome = "INTERNAL_ERROR") =>
        \/ run_log[1].exitstatus = EXIT_SANDBOX_ERROR /\ ~Res.invoked
        \/ /\ run_log[1].exitstatus = EXIT_OK
           /\ Res.invoked
           /\ (checker_run = <<>> \/ checker_run[1].exitcode \notin {0, 1, 2, 3})

C10_Witness ==
    /\ Checked /\ Res.outcome = "INTERNAL_ERROR"
    /\ run_log[1].exitstatus = EXIT_SANDBOX_ERROR /\ ~Res.invoked
    /\ checker_run # <<>> /\ checker_run[1].exitcode = 0

(***************************************************************************)
(* Properties of the solution report                                       *)
(***************************************************************************)
Reported == pc = "done" /\ report # <<>>
Verdicts == {evals[k].result.outcome : k \in DOMAIN evals}

\* C4 (as claimed): the solution's check passes iff every verdict observed
\* across its testcases is accepted by the declared expected outcome.
C4_PassIffEveryVerdictMatched ==
    Reported =>
        (report[1].returned <=> \A v \in Verdicts : match(solution.outcome, v))

\* C4 (amended): the solution's check passes iff every verdict other than
\* ACCEPTED observed across its testcases is accepted by the declared
\* expected outcome; ACCEPTED verdicts and matched verdicts never fail it.
C4_PassIffEveryBadVerdictMatched ==
    Reported =>
        (report[1].returned <=>
            \A v \in Verdicts \ {"ACCEPTED"} : match(solution.outcome, v))

C4_Witness ==
    /\ Reported /\ report[1].returned
    /\ solution.outcome = "TLE_OR_RTE"
    /\ Verdicts = {"ACCEPTED", "RUNTIME_ERROR"}

(***************************************************************************)
(* Properties of the evaluation pipeline                                   *)
(***************************************************************************)
\* the observed time lies strictly between the nominal limit and twice it
InSlack(rl) == rl.time > 2 * TimeLimit /\ rl.time < 4 * TimeLimit

\* C5: under VerificationLevel.FULL a testcase whose run exits 0 with the
\* right output in a time strictly between the nominal limit and twice the
\* limit gets outcome ACCEPTED.
C5_SlackRunAccepted ==
    (/\ pc = "persist" /\ verification = VL_FULL
     /\ proc[1].env = "ok" /\ proc[1].output = "right"
     /\ run_log[1].exitstatus = EXIT_OK /\ InSlack(run_log[1]))
        => checker_result[1].outcome = "ACCEPTED"

\* C6: the solution's run is configured with a CPU time limit of timeLimit
\* below FULL and of twice timeLimit at FULL or above, and with the
\* package's memoryLimit; the checker's run gets no such configuration.
C6_RunLimits ==
    /\ extra_config # <<>> =>
         /\ extra_config[1].timeLimit =
              IF verification < VL_FULL THEN TimeLimit ELSE 2 * TimeLimit
         /\ extra_config[1].memoryLimit = MemoryLimit
    /\ sol_call # <<>> =>
         /\ sol_call[1].extra_config # <<>>
         /\ sol_call[1].extra_config[1].timeLimit =
              IF verification < VL_FULL THEN TimeLimit ELSE 2 * TimeLimit
         /\ sol_call[1].extra_config[1].memoryLimit = MemoryLimit
    /\ chk_call # <<>> => chk_call[1].extra_config = <<>>

C6_Witness ==
    /\ pc = "persist" /\ verification = VL_FULL
    /\ sol_call # <<>> /\ sol_call[1].extra_config[1].timeLimit = 2 * TimeLimit
    /\ chk_call # <<>>

\* the solution sleeps one and a half times the time limit, then exits 0
Sleeper(p) ==
    /\ p.env = "ok" /\ p.cpu = 0 /\ p.wall = 3 * TimeLimit
    /\ p.mem <= MemoryLimit /\ ~p.signal /\ p.exitcode = 0

\* C7: with the limits of verification NONE, a solution that sleeps 1.5
\* times timeLimit and exits 0 is reported TIMEOUT_WALL or TIMEOUT, its
\* outcome is TIME_LIMIT_EXCEEDED and the checker is not invoked.
C7_SleeperTimesOut ==
    (verification = VL_NONE /\ proc # <<>> /\ Sleeper(proc[1])) =>
        /\ pc \in {"check", "persist"} =>
             run_log[1].exitstatus \in {EXIT_TIMEOUT_WALL, EXIT_TIMEOUT}
        /\ pc = "persist" =>
             /\ checker_result[1].outcome = "TIME_LIMIT_EXCEEDED"
             /\ chk_call = <<>>

\* C8: when run_item returns None for the solution's run on a testcase,
\* the pipeline aborts: the next step ends run_solution with an error, no
\* Evaluation is appended and no log is written for that testcase.
C8_NoneRunLogAborts ==
    [][(pc = "check" /\ run_log = <<>>) =>
          (pc' = "aborted" /\ evals' = evals /\ logs' = logs
           /\ checker_result' = <<>>)]_vars

C8_Witness ==
    /\ pc = "aborted" /\ run_log = <<>>
    /\ tc = 1 /\ Len(evals) = 1 /\ Len(logs) = 1

(***************************************************************************)
(* Further properties of check() and of the report                         *)
(***************************************************************************)
\* C11: for every run log with one of the seven exit statuses and every
\* behaviour of the checker, check() returns a CheckerResult holding one
\* Outcome of the enumeration and raises no exception.
C11_CheckIsTotal ==
    (Checked /\ run_log[1].exitstatus \in ExitStatuses) =>
        /\ ~Res.raised
        /\ Res.outcome \in Outcome

C11_Witness ==
    /\ Checked /\ run_log[1].exitstatus = EXIT_OK
    /\ run_log[1].time = 0 /\ checker_run = <<>>
    /\ ~Res.raised /\ Res.outcome = "INTERNAL_ERROR"

\* C12: whenever the checker program was invoked and wrote to its stderr,
\* the result's message is that stderr content, for ACCEPTED, WRONG_ANSWER,
\* JUDGE_FAILED and INTERNAL_ERROR alike.
C12_MessageIsCheckerStderr ==
    (Checked /\ Res.invoked /\ checker_run # <<>> /\ checker_run[1].stderr # "") =>
        Res.message = <<checker_run[1].stderr>>

\* C13: the three positional arguments of the checker name, in this order,
\* the file holding the testcase input, the file holding the solution's
\* actual output and the file holding the expected output.
C13_CheckerArgumentOrder ==
    chk_call # <<>> =>
        /\ Len(chk_call[1].extra_args) = 3
        /\ chk_call[1].inputs[chk_call[1].extra_args[1]] = "testcase.inputPath"
        /\ chk_call[1].inputs[chk_call[1].extra_args[2]] = "program_output"
        /\ chk_call[1].inputs[chk_call[1].extra_args[3]] = "testcase.outputPath"

C13_Witness ==
    /\ pc = "persist" /\ chk_call # <<>>
    /\ checker_run # <<>> /\ checker_run[1].exitcode = 1
    /\ checker_result[1].outcome = "WRONG_ANSWER"

\* C14: for a solution declared ACCEPTED, as soon as one testcase has a
\* verdict other than ACCEPTED the report is a failure, and the verdicts it
\* lists as unmatched are exactly the non-ACCEPTED verdicts observed.
C14_AcceptedSolutionFails ==
    (Reported /\ solution.outcome = "ACCEPTED" /\ Verdicts \ {"ACCEPTED"} # {}) =>
        /\ ~report[1].returned
        /\ report[1].status = "FAILED"
        /\ report[1].got = Verdicts \ {"ACCEPTED"}

C14_Witness ==
    /\ Reported /\ solution.outcome = "ACCEPTED"
    /\ Verdicts = {"ACCEPTED", "WRONG_ANSWER"}
    /\ report[1].got = {"WRONG_ANSWER"} /\ ~report[1].returned

(***************************************************************************)
(* Environment configuration: layered sandbox configs and file mappings    *)
(* (box/environment.py).  A model instance is the function from the fields *)
(* that were explicitly set to their values; every other field reads as    *)
(* the model's default.                                                    *)
(***************************************************************************)
MaxSetFields == 2

\* class FileMapping: the fields and their defaults
FileMapping ==
    [input |-> "stdin", output |-> "stdout", compilable |-> "compilable",
     executable |-> "executable"]

\* class EnvironmentSandbox: the fields and their defaults
EnvironmentSandbox ==
    [maxProcesses |-> "1", timeLimit |-> "1000", wallTimeLimit |-> "2000",
     memoryLimit |-> "256", stackLimit |-> "None", preserveEnv |-> "False",
     mirrorDirs |-> "[]"]

\* the value a field of an instance reads as
FieldOf(model, inst, f) == IF f \in DOMAIN inst THEN inst[f] ELSE model[f]

\* the instances of a model that set at most MaxSetFields fields, each to v
Instances(model, v) ==
    UNION {[D -> {v}] : D \in {S \in SUBSET DOMAIN model : Cardinality(S) <= MaxSetFields}}

\* what a call that raised returns
MergeRaised == [raised |-> TRUE, commands |-> <<>>, sandbox |-> <<>>]

_merge_shallow_models_c16(model, base, override) ==
    IF base = <<>> \/ override = <<>>
      THEN <<>>
      ELSE <<[f \in (DOMAIN base[1] \cup DOMAIN override[1]) \cap DOMAIN model |->
                IF f \in DOMAIN base[1] THEN base[1][f] ELSE override[1][f]]>>

\* _merge_shallow_models(): the model built from base's explicitly set
\* fields updated with override's; base and override are Optional, and
\* the result is <<>> when model_dump is called on None (AttributeError)
_merge_shallow_models(model, base, override) ==
    IF base = <<>> \/ override = <<>>
      THEN <<>>
      ELSE <<[f \in (DOMAIN base[1] \cup DOMAIN override[1]) \cap DOMAIN model |->
                IF f \in DOMAIN override[1] THEN override[1][f] ELSE base[1][f]]>>

\* the sandbox _merge_compilation_configs starts from: max_processes and
\* timelimit are not fields of EnvironmentSandbox and are ignored
CompilationFallback ==
    [wallTimeLimit |-> "10000", memoryLimit |-> "512", preserveEnv |-> "True",
     mirrorDirs |-> "['/etc', '/usr']"]

\* one iteration of the loop of _merge_compilation_configs / _merge_execution_configs
merge_config(merged_cfg, cfg) ==
    IF merged_cfg.raised \/ cfg = <<>>
      THEN MergeRaised
      ELSE LET sandbox == _merge_shallow_models(EnvironmentSandbox, cfg[1].sandbox,
                                                merged_cfg.sandbox)
           IN IF sandbox = <<>>
                THEN MergeRaised
                ELSE [raised |-> FALSE,
                      commands |-> IF cfg[1].commands # <<>> THEN cfg[1].commands
                                   ELSE merged_cfg.commands,
                      sandbox |-> sandbox]

RECURSIVE merge_configs(_, _)
merge_configs(merged_cfg, configs) ==
    IF configs = <<>> THEN merged_cfg
    ELSE merge_configs(merge_config(merged_cfg, Head(configs)), Tail(configs))

_merge_compilation_configs(compilation_configs) ==
    merge_configs([raised |-> FALSE, commands |-> <<>>,
                   sandbox |-> <<CompilationFallback>>], compilation_configs)

_merge_execution_configs(execution_configs) ==
    merge_configs([raised |-> FALSE, commands |-> <<>>, sandbox |-> <<>>],
                  execution_configs)

\* x or FileMapping()
OrDefault(x) == IF x = <<>> THEN << <<>> >> ELSE x

get_file_mapping(default_mapping, language_mapping) ==
    _merge_shallow_models(FileMapping, OrDefault(default_mapping),
                          OrDefault(language_mapping))

\* the configs a layer can hold: commands or none, a sandbox or none
Configs(v) ==
    [commands : {<<>>, <<v>>}, sandbox : Opt(Instances(EnvironmentSandbox, v))]

InitMerge ==
    /\ pc = "resolve"
    /\ \/ /\ env_cfg \in Opt(Configs("env"))
          /\ lang_cfg \in Opt(Configs("lang"))
          /\ env_mapping = <<>>
          /\ lang_mapping = <<>>
       \/ /\ env_cfg = <<>>
          /\ lang_cfg = <<>>
          /\ env_mapping \in Opt(Instances(FileMapping, "env"))
          /\ lang_mapping \in Opt(Instances(FileMapping, "lang"))
    /\ resolved = <<>>
    /\ NotMergeIdle

\* get_compilation_config(language)
GetCompilationConfig ==
    /\ pc = "resolve"
    /\ resolved' = <<_merge_compilation_configs(<<env_cfg, lang_cfg>>)>>
    /\ pc' = "compilation"
    /\ UNCHANGED <<env_cfg, lang_cfg, env_mapping, lang_mapping>>
    /\ UNCHANGED not_merge_vars

\* get_execution_config(language): the language's execution is required
GetExecutionConfig ==
    /\ pc = "resolve"
    /\ lang_cfg # <<>>
    /\ resolved' = <<_merge_execution_configs(<<env_cfg, lang_cfg>>)>>
    /\ pc' = "execution"
    /\ UNCHANGED <<env_cfg, lang_cfg, env_mapping, lang_mapping>>
    /\ UNCHANGED not_merge_vars

\* get_file_mapping(language)
GetFileMapping ==
    /\ pc = "resolve"
    /\ resolved' = get_file_mapping(env_mapping, lang_mapping)
    /\ pc' = "mapping"
    /\ UNCHANGED <<env_cfg, lang_cfg, env_mapping, lang_mapping>>
    /\ UNCHANGED not_merge_vars

NextMerge == GetCompilationConfig \/ GetExecutionConfig \/ GetFileMapping

SpecMerge == InitMerge /\ [][NextMerge]_vars

(***************************************************************************)
(* Properties of the configuration layers                                  *)
(***************************************************************************)
BothSandboxes ==
    /\ env_cfg # <<>> /\ env_cfg[1].sandbox # <<>>
    /\ lang_cfg # <<>> /\ lang_cfg[1].sandbox # <<>>

\* the value of field f in the most specific layer that sets it; fallback
\* is the function of the built-in values below the environment
MostSpecific(f, fallback) ==
    IF f \in DOMAIN lang_cfg[1].sandbox[1] THEN lang_cfg[1].sandbox[1][f]
    ELSE IF f \in DOMAIN env_cfg[1].sandbox[1] THEN env_cfg[1].sandbox[1][f]
    ELSE IF f \in DOMAIN fallback THEN fallback[f]
    ELSE EnvironmentSandbox[f]

\* C15: in the resolved compilation config and the resolved execution
\* config, every sandbox field has the value of the most specific layer
\* that sets it: the language's, else the environment default's, else (for
\* compilation) the built-in fallback's.
C15_MostSpecificLayerWins ==
    /\ (pc = "compilation" /\ BothSandboxes) =>
          /\ ~resolved[1].raised
          /\ \A f \in DOMAIN EnvironmentSandbox :
                FieldOf(EnvironmentSandbox, resolved[1].sandbox[1], f)
                  = MostSpecific(f, CompilationFallback)
    /\ (pc = "execution" /\ BothSandboxes) =>
          /\ ~resolved[1].raised
          /\ \A f \in DOMAIN EnvironmentSandbox :
                FieldOf(EnvironmentSandbox, resolved[1].sandbox[1], f)
                  = MostSpecific(f, <<>>)

\* C16: the file mapping of a language has, for every field, the value the
\* language's mapping sets, else the value the environment's default
\* mapping sets, else the model's default.
C16_ShallowMergePrecedence ==
    pc = "mapping" =>
      /\ resolved # <<>>
      /\ \A f \in DOMAIN FileMapping :
            FieldOf(FileMapping, resolved[1], f)
              = IF f \in DOMAIN OrDefault(lang_mapping)[1] THEN lang_mapping[1][f]
                ELSE IF f \in DOMAIN OrDefault(env_mapping)[1] THEN env_mapping[1][f]
                ELSE FileMapping[f]

C16_Witness ==
    /\ pc = "mapping"
    /\ env_mapping # <<>> /\ DOMAIN env_mapping[1] = {"input", "output"}
    /\ lang_mapping # <<>> /\ DOMAIN lang_mapping[1] = {"input"}
    /\ FieldOf(FileMapping, resolved[1], "input") = "lang"
    /\ FieldOf(FileMapping, resolved[1], "output") = "env"
    /\ FieldOf(FileMapping, resolved[1], "executable") = "executable"

(***************************************************************************)
(* Truncator (grading/judge/sandbox.py): read-only access to a prefix of a *)
(* wrapped binary file.  A file is [len, pos]; byte i of a file is the     *)
(* number i, so a read returns the sequence of the positions it read.      *)
(***************************************************************************)
MaxLen == 3
MaxPos == 4

Whences == {"SEEK_SET", "SEEK_CUR", "SEEK_END"}
Raised == "raise"

Min(a, b) == IF a <= b THEN a ELSE b

\* fobj.seek(offset, whence): a negative target raises and leaves the
\* position where it is
file_seek(f, offset, whence) ==
    LET target == CASE whence = "SEEK_SET" -> offset
                    [] whence = "SEEK_CUR" -> f.pos + offset
                    [] whence = "SEEK_END" -> f.len + offset
    IN IF target < 0
         THEN [f |-> f, ret |-> Raised]
         ELSE [f |-> [f EXCEPT !.pos = target], ret |-> target]

\* fobj.readinto(b) with a buffer of n bytes
file_readinto(f, n) ==
    LET k == Min(n, Max({0, f.len - f.pos}))
    IN [f |-> [f EXCEPT !.pos = @ + k], ret |-> [i \in 1..k |-> f.pos + i - 1]]

\* fobj.tell()
file_tell(f) == [f |-> f, ret |-> f.pos]

\* Truncator.readinto(b) with a buffer of n bytes, as read(n) calls it
Truncator_readinto(t, n) ==
    LET r == file_readinto(t.fobj, Min(n, Max({0, t.size - file_tell(t.fobj).ret})))
    IN [t |-> [t EXCEPT !.fobj = r.f], ret |-> r.ret]

\* Truncator.seek(offset, whence)
Truncator_seek(t, offset, whence) ==
    IF whence = "SEEK_END"
      THEN LET end == file_seek(t.fobj, 0, "SEEK_END")
               clipped == IF end.ret > t.size
                            THEN file_seek(end.f, t.size, "SEEK_SET").f
                            ELSE end.f
               r == file_seek(clipped, offset, "SEEK_CUR")
           IN [t |-> [t EXCEPT !.fobj = r.f], ret |-> r.ret]
      ELSE LET r == file_seek(t.fobj, offset, whence)
           IN [t |-> [t EXCEPT !.fobj = r.f], ret |-> r.ret]

\* Truncator.tell()
Truncator_tell(t) == [t |-> t, ret |-> file_tell(t.fobj).ret]

UnsupportedOperation == "UnsupportedOperation"

Truncator_write_c23(t, content, b) ==
    [t |-> [t EXCEPT !.fobj.len = Len(content \o b), !.fobj.pos = Len(content \o b)],
     content |-> content \o b, ret |-> "written"]

\* Truncator.write(b), content being the bytes of the wrapped file
Truncator_write(t, content, b) ==
    [t |-> t, content |-> content, ret |-> UnsupportedOperation]

\* get_file(path, trunc_len): the file is opened at position 0 and wrapped
InitTrunc ==
    /\ pc = "open"
    /\ \E len \in 0..MaxLen, size \in 0..MaxLen :
         /\ truncator = [fobj |-> [len |-> len, pos |-> 0], size |-> size]
         /\ prefix_file = [len |-> Min(len, size), pos |-> 0]
         /\ wrapped_content = [i \in 1..len |-> i - 1]
    /\ truncator_ret = <<>>
    /\ prefix_ret = <<>>
    /\ trunc_call = <<>>
    /\ NotTruncIdle

\* read(n) on both
Read ==
    \E n \in 0..(MaxLen + 1) :
      LET a == Truncator_readinto(truncator, n)
          b == file_readinto(prefix_file, n)
      IN /\ truncator' = a.t
         /\ truncator_ret' = <<a.ret>>
         /\ prefix_file' = b.f
         /\ prefix_ret' = <<b.ret>>
         /\ trunc_call' = <<[op |-> "read", args |-> <<n>>]>>
         /\ UNCHANGED <<wrapped_content, pc, not_trunc_vars>>

\* seek(offset, whence) on both
Seek ==
    \E offset \in (0 - MaxPos)..MaxPos, whence \in Whences :
      LET a == Truncator_seek(truncator, offset, whence)
          b == file_seek(prefix_file, offset, whence)
      IN /\ a.t.fobj.pos <= MaxPos
         /\ b.f.pos <= MaxPos
         /\ truncator' = a.t
         /\ truncator_ret' = <<a.ret>>
         /\ prefix_file' = b.f
         /\ prefix_ret' = <<b.ret>>
         /\ trunc_call' = <<[op |-> "seek", args |-> <<offset, whence>>]>>
         /\ UNCHANGED <<wrapped_content, pc, not_trunc_vars>>

\* tell() on both
Tell ==
    LET a == Truncator_tell(truncator)
        b == file_tell(prefix_file)
    IN /\ truncator' = a.t
       /\ truncator_ret' = <<a.ret>>
       /\ prefix_file' = b.f
       /\ prefix_ret' = <<b.ret>>
       /\ trunc_call' = <<[op |-> "tell", args |-> <<>>]>>
       /\ UNCHANGED <<wrapped_content, pc, not_trunc_vars>>

\* write(b) on both; prefix_file is opened for reading only
Write ==
    \E b \in {<<>>, <<0>>} :
      LET a == Truncator_write(truncator, wrapped_content, b)
      IN /\ truncator' = a.t
         /\ wrapped_content' = a.content
         /\ truncator_ret' = <<a.ret>>
         /\ prefix_ret' = <<UnsupportedOperation>>
         /\ trunc_call' = <<[op |-> "write", args |-> <<b>>]>>
         /\ UNCHANGED <<prefix_file, pc, not_trunc_vars>>

NextTrunc == Read \/ Seek \/ Tell \/ Write

SpecTrunc == InitTrunc /\ [][NextTrunc]_vars

(***************************************************************************)
(* Properties of the Truncator                                             *)
(***************************************************************************)
\* C17: after any sequence of read, seek and tell calls, the last call on
\* a Truncator with limit N returned what the same call returns on a file
\* holding only the first N bytes of the wrapped file.
C17_TruncatorIsPrefixFile == truncator_ret = prefix_ret

(***************************************************************************)
(* Sandbox file operations (grading/judge/sandbox.py).  A path is          *)
(* [absolute, parts]; a system path is the sequence of its components      *)
(* below "/".  The directories of the system are "/", the sandbox root     *)
(* "/box" and its subdirectories "/box/box", ...; a file is named "a".     *)
(***************************************************************************)
MaxDepth == 2

Names == {"a", "box", ".."}
Root == <<"box">>

\* the path arguments
Paths ==
    [absolute : BOOLEAN, parts : UNION {[1..n -> Names] : n \in 1..MaxDepth}]

\* relative_path(path): get_root_path() / path, where pathlib's "/"
\* returns the right operand when it is absolute and keeps ".." components
relative_path(path) == IF path.absolute THEN path.parts ELSE Root \o path.parts

IsDir(p) == \A i \in 1..Len(p) : p[i] = "box"

\* the lookup the system does for a path from directory at: <<>> when a
\* component is searched in something that is not a directory
RECURSIVE lookup(_, _)
lookup(at, parts) ==
    IF parts = <<>> THEN <<at>>
    ELSE IF ~IsDir(at) THEN <<>>
    ELSE IF Head(parts) = ".."
           THEN lookup(IF at = <<>> THEN at ELSE SubSeq(at, 1, Len(at) - 1),
                       Tail(parts))
    ELSE lookup(Append(at, Head(parts)), Tail(parts))

\* the system path of the file a path argument names, if any
real_file(path) ==
    LET t == lookup(<<>>, relative_path(path))
    IN IF t # <<>> /\ ~IsDir(t[1]) THEN t ELSE <<>>

\* whether a path argument names a directory
real_dir(path) ==
    LET t == lookup(<<>>, relative_path(path)) IN t # <<>> /\ IsDir(t[1])

InsideRoot(p) == Len(p) > Len(Root) /\ SubSeq(p, 1, Len(Root)) = Root

FilePaths == {real_file(p)[1] : p \in {q \in Paths : real_file(q) # <<>>}}

\* the content of the files that exist before the operations: byte i is i
Data == [i \in 1..MaxLen |-> i - 1]

File(content, executable) == [content |-> content, executable |-> executable]

create_file_c28(files, path, executable, override) ==
    LET t == real_file(path) IN
    IF t = <<>>
      THEN [fs |-> files, touched |-> t, ret |-> Raised]
      ELSE [fs |-> [files EXCEPT ![t[1]] = <<File(<<>>, executable)>>],
            touched |-> t, ret |-> "file"]

\* create_file(path, executable, override)
create_file(files, path, executable, override) ==
    LET t == real_file(path) IN
    IF t = <<>> \/ (files[t[1]] # <<>> /\ ~override)
      THEN [fs |-> files, touched |-> t, ret |-> Raised]
      ELSE [fs |-> [files EXCEPT ![t[1]] = <<File(<<>>, executable)>>],
            touched |-> t, ret |-> "file"]

\* get_file(path, trunc_len): ret is what reading the returned file gives
get_file(files, path, trunc_len) ==
    LET t == real_file(path) IN
    IF t = <<>> \/ files[t[1]] = <<>>
      THEN [fs |-> files, touched |-> t, ret |-> Raised]
      ELSE LET content == files[t[1]][1].content
               fobj == [len |-> Len(content), pos |-> 0]
               n == IF trunc_len = <<>>
                      THEN Len(file_readinto(fobj, Len(content)).ret)
                      ELSE Len(Truncator_readinto([fobj |-> fobj, size |-> trunc_len[1]],
                                                  Len(content)).ret)
           IN [fs |-> files, touched |-> t, ret |-> SubSeq(content, 1, n)]

\* stat_file(path)
stat_file(files, path) ==
    LET t == real_file(path) IN
    IF real_dir(path) THEN [fs |-> files, touched |-> t, ret |-> "directory"]
    ELSE IF t = <<>> \/ files[t[1]] = <<>>
      THEN [fs |-> files, touched |-> t, ret |-> Raised]
    ELSE [fs |-> files, touched |-> t,
          ret |-> [size |-> Len(files[t[1]][1].content),
                   executable |-> files[t[1]][1].executable]]

\* file_exists(path)
file_exists(files, path) ==
    LET t == real_file(path) IN
    [fs |-> files, touched |-> t,
     ret |-> real_dir(path) \/ (t # <<>> /\ files[t[1]] # <<>>)]

\* remove_file(path)
remove_file(files, path) ==
    LET t == real_file(path) IN
    IF real_dir(path) THEN [fs |-> files, touched |-> t, ret |-> Raised]
    ELSE IF t = <<>> THEN [fs |-> files, touched |-> t, ret |-> "None"]
    ELSE [fs |-> [files EXCEPT ![t[1]] = <<>>], touched |-> t, ret |-> "None"]

\* The file cacher of the sandbox: a content-addressed store, a function
\* from the digests of the stored contents to the contents
FileCacher == <<>>

\* the digest of a content: equal contents have equal digests
digest_of(content) == <<"digest", content>>

Digests == {digest_of(SubSeq(Data, 1, n)) : n \in 0..MaxLen}

\* FileCacher.put_file_from_fobj(fobj): stores what reading fobj to its
\* end gives and returns the digest
put_file_from_fobj(store, content) ==
    LET d == digest_of(content) IN
    [storage |-> [k \in DOMAIN store \cup {d} |->
                     IF k = d THEN content ELSE store[k]],
     ret |-> d]

\* FileCacher.get_file_to_fobj(digest, fobj): the bytes written to fobj,
\* None when the digest is not in the store (the call raises)
get_file_to_fobj(store, digest) ==
    IF digest \in DOMAIN store THEN <<store[digest]>> ELSE <<>>

get_file_to_storage_c29(files, store, path, trunc_len) ==
    LET g == get_file(files, path, <<>>) IN
    IF g.ret = Raised
      THEN [fs |-> g.fs, touched |-> g.touched, storage |-> store, ret |-> Raised]
      ELSE LET put == put_file_from_fobj(store, g.ret)
           IN [fs |-> g.fs, touched |-> g.touched, storage |-> put.storage,
               ret |-> put.ret]

\* get_file_to_storage(path, description, trunc_len)
get_file_to_storage(files, store, path, trunc_len) ==
    LET g == get_file(files, path, trunc_len) IN
    IF g.ret = Raised
      THEN [fs |-> g.fs, touched |-> g.touched, storage |-> store, ret |-> Raised]
      ELSE LET put == put_file_from_fobj(store, g.ret)
           IN [fs |-> g.fs, touched |-> g.touched, storage |-> put.storage,
               ret |-> put.ret]

\* create_file_from_storage(path, digest, executable, override): the file
\* create_file made stays, empty, when the cacher raises
create_file_from_storage(files, store, path, digest, executable, override) ==
    LET c == create_file(files, path, executable, override)
        got == get_file_to_fobj(store, digest)
    IN IF c.ret = Raised
         THEN [fs |-> c.fs, touched |-> c.touched, storage |-> store, ret |-> Raised]
       ELSE IF got = <<>>
         THEN [fs |-> c.fs, touched |-> c.touched, storage |-> store, ret |-> Raised]
       ELSE [fs |-> [c.fs EXCEPT ![c.touched[1]] = <<File(got[1], executable)>>],
             touched |-> c.touched, storage |-> store, ret |-> "None"]

\* SandboxParams(): the process-count ceiling of a new sandbox
SandboxParams == [max_processes |-> 1]

set_multiprocess_c24(p, m) ==
    IF m THEN [p EXCEPT !.max_processes = 1000] ELSE p

\* set_multiprocess(multiprocess) on the params of the sandbox
set_multiprocess(p, m) ==
    IF m THEN [p EXCEPT !.max_processes = 1000]
         ELSE [p EXCEPT !.max_processes = 1]

InitFiles ==
    /\ pc = "sandbox"
    /\ fs \in [FilePaths -> Opt({File(Data, FALSE)})]
    /\ touched = <<>>
    /\ file_ret = <<>>
    /\ params = SandboxParams
    /\ multiprocess = <<>>
    /\ file_call = <<>>
    /\ storage = FileCacher
    /\ NotFileIdle

FileOp(r) ==
    /\ fs' = r.fs
    /\ touched' = r.touched
    /\ file_ret' = <<r.ret>>
    /\ UNCHANGED <<params, multiprocess, file_call, storage, pc, not_file_vars>>

CreateFile ==
    \E path \in Paths, executable \in BOOLEAN, override \in BOOLEAN :
      FileOp(create_file(fs, path, executable, override))

GetFile ==
    \E path \in Paths, trunc_len \in Opt(0..MaxLen) :
      FileOp(get_file(fs, path, trunc_len))

StatFile == \E path \in Paths : FileOp(stat_file(fs, path))

FileExists == \E path \in Paths : FileOp(file_exists(fs, path))

RemoveFile == \E path \in Paths : FileOp(remove_file(fs, path))

NextFiles ==
    \/ CreateFile \/ GetFile \/ StatFile \/ FileExists \/ RemoveFile

SpecFiles == InitFiles /\ [][NextFiles]_vars

(***************************************************************************)
(* The process-count ceiling of a sandbox: set_multiprocess                *)
(***************************************************************************)
MaxCalls == 6

\* SandboxBase.__init__: self.params = SandboxParams()
InitParams ==
    /\ pc = "sandbox"
    /\ fs = [u \in FilePaths |-> <<>>]
    /\ touched = <<>>
    /\ file_ret = <<>>
    /\ params = SandboxParams
    /\ multiprocess = <<>>
    /\ file_call = <<>>
    /\ storage = FileCacher
    /\ NotFileIdle

\* set_multiprocess(multiprocess)
SetMultiprocess ==
    /\ Len(multiprocess) < MaxCalls
    /\ \E m \in BOOLEAN :
         /\ params' = set_multiprocess(params, m)
         /\ multiprocess' = Append(multiprocess, m)
    /\ UNCHANGED <<fs, touched, file_ret, file_call, storage, pc, not_file_vars>>

NextParams == SetMultiprocess

SpecParams == InitParams /\ [][NextParams]_vars

(***************************************************************************)
(* Staging files between the sandbox and the file cacher: create_file,     *)
(* get_file_to_storage, create_file_from_storage                           *)
(***************************************************************************)
\* the path arguments of the staging calls: two files, a directory and a
\* path through a file
StagingPaths ==
    {[absolute |-> FALSE, parts |-> p] :
       p \in {<<"a">>, <<"box", "a">>, <<"box">>, <<"a", "a">>}}

InitStaging ==
    /\ pc = "staging"
    /\ fs \in [FilePaths -> Opt({File(Data, FALSE)})]
    \* the staging paths name files inside the root: the others play no part
    /\ \A u \in FilePaths : ~InsideRoot(u) => fs[u] = <<>>
    /\ touched = <<>>
    /\ file_ret = <<>>
    /\ params = SandboxParams
    /\ multiprocess = <<>>
    /\ file_call = <<>>
    /\ storage = FileCacher
    /\ NotFileIdle

\* a staging call: r is what it does, call names it
StagingOp(r, call) ==
    /\ fs' = r.fs
    /\ touched' = r.touched
    /\ file_ret' = <<r.ret>>
    /\ file_call' = <<call>>
    /\ UNCHANGED <<params, multiprocess, pc, not_file_vars>>

StageCreateFile ==
    \E path \in StagingPaths, override \in BOOLEAN :
      /\ StagingOp(create_file(fs, path, FALSE, override),
                   [op |-> "create_file", path |-> path, override |-> override])
      /\ UNCHANGED storage

GetFileToStorage ==
    \E path \in StagingPaths, trunc_len \in Opt(0..MaxLen) :
      LET r == get_file_to_storage(fs, storage, path, trunc_len) IN
      /\ StagingOp(r, [op |-> "get_file_to_storage", path |-> path,
                       trunc_len |-> trunc_len])
      /\ storage' = r.storage

CreateFileFromStorage ==
    \E path \in StagingPaths, digest \in Digests, override \in BOOLEAN :
      LET r == create_file_from_storage(fs, storage, path, digest, FALSE, override)
      IN /\ StagingOp(r, [op |-> "create_file_from_storage", path |-> path,
                          digest |-> digest, override |-> override])
         /\ storage' = r.storage

NextStaging == StageCreateFile \/ GetFileToStorage \/ CreateFileFromStorage

SpecStaging == InitStaging /\ [][NextStaging]_vars

(***************************************************************************)
(* Properties of the sandbox file operations                               *)
(***************************************************************************)

\* C18: whatever the path argument, the file a sandbox file operation
\* reads, creates or deletes is located inside the sandbox root.
C18_FileOpsStayInsideRoot == touched # <<>> => InsideRoot(touched[1])

(***************************************************************************)
(* The run and test commands (run.py, test.py): the sandbox they create    *)
(* and its cleanup, registered with atexit                                 *)
(***************************************************************************)
Commands == {"run", "test"}

\* what the steps of a command meet: whether the problem and the language
\* are found, whether there are testcases, whether preprocessing and
\* running succeed, whether os.execv finds the program to execute
Worlds ==
    [problem_found : BOOLEAN, lang_found : BOOLEAN, has_testcases : BOOLEAN,
     preprocess_ok : BOOLEAN, run_ok : BOOLEAN, exec_ok : BOOLEAN]

\* SandboxBase.cleanup(delete)
cleanup(sandbox, delete) ==
    [sandbox EXCEPT !.cleaned = TRUE,
                    !.root = IF delete THEN "deleted" ELSE @]

\* the interpreter exits: the registered handlers run, last first
RECURSIVE run_exitfuncs(_, _)
run_exitfuncs(sandbox, handlers) ==
    IF handlers = <<>> THEN sandbox
    ELSE run_exitfuncs(cleanup(sandbox, handlers[Len(handlers)].delete),
                       SubSeq(handlers, 1, Len(handlers) - 1))

InitCmd ==
    /\ pc = "find_problem"
    /\ invocation \in [command : Commands, keep_sandbox : BOOLEAN, world : Worlds]
    /\ box = <<>>
    /\ atexit_handlers = <<>>
    /\ process = "running"
    /\ NotCmdIdle

\* run.main lines 16-21, test.main lines 151-156
FindProblem ==
    /\ pc = "find_problem"
    /\ pc' = IF invocation.world.problem_found THEN "get_language" ELSE "return"
    /\ UNCHANGED <<cmd_vars, not_cmd_vars>>

\* run.main lines 23-28, test.main lines 158-163
GetLanguage ==
    /\ pc = "get_language"
    /\ pc' = IF ~invocation.world.lang_found THEN "return"
             ELSE IF invocation.command = "test" THEN "get_testcases"
             ELSE "create_box"
    /\ UNCHANGED <<cmd_vars, not_cmd_vars>>

\* test.main lines 165-174
GetTestcases ==
    /\ pc = "get_testcases"
    /\ pc' = IF invocation.world.has_testcases THEN "create_box" ELSE "return"
    /\ UNCHANGED <<cmd_vars, not_cmd_vars>>

\* run.main lines 30-31, test.main lines 176-177
CreateSandbox ==
    /\ pc = "create_box"
    /\ box' = <<[root |-> "present", cleaned |-> FALSE]>>
    /\ atexit_handlers' = Append(atexit_handlers, [delete |-> ~invocation.keep_sandbox])
    /\ pc' = "preprocess"
    /\ UNCHANGED <<invocation, process, not_cmd_vars>>

\* run.main lines 33-41, test.main lines 179-186
Preprocess ==
    /\ pc = "preprocess"
    /\ pc' = IF ~invocation.world.preprocess_ok THEN "return"
             ELSE IF invocation.command = "run" THEN "exec"
             ELSE "run_testcases"
    /\ UNCHANGED <<cmd_vars, not_cmd_vars>>

\* test.main lines 188-196
RunTestcases ==
    /\ pc = "run_testcases"
    /\ pc' = IF invocation.world.run_ok THEN "evaluate" ELSE "return"
    /\ UNCHANGED <<cmd_vars, not_cmd_vars>>

\* test.main lines 198-210: the command returns after the error message
\* or after the printed results
EvaluateTestcases ==
    /\ pc = "evaluate"
    /\ pc' = "return"
    /\ UNCHANGED <<cmd_vars, not_cmd_vars>>

\* run.main lines 43-44: os.execv replaces the process by the program, and
\* the handlers registered with atexit are gone with it; when it fails it
\* raises, and the interpreter exits
Exec ==
    /\ pc = "exec"
    /\ IF invocation.world.exec_ok
         THEN /\ process' = "replaced"
              /\ atexit_handlers' = <<>>
              /\ pc' = "replaced"
         ELSE /\ pc' = "return"
              /\ UNCHANGED <<process, atexit_handlers>>
    /\ UNCHANGED <<invocation, box, not_cmd_vars>>

\* main returned (or raised): the interpreter exits and runs the handlers
Exit ==
    /\ pc = "return"
    /\ box' = IF box = <<>> THEN box ELSE <<run_exitfuncs(box[1], atexit_handlers)>>
    /\ atexit_handlers' = <<>>
    /\ process' = "exited"
    /\ pc' = "exited"
    /\ UNCHANGED <<invocation, not_cmd_vars>>

NextCmd ==
    \/ FindProblem \/ GetLanguage \/ GetTestcases \/ CreateSandbox \/ Preprocess
    \/ RunTestcases \/ EvaluateTestcases \/ Exec \/ Exit

SpecCmd == InitCmd /\ [][NextCmd]_vars

(***************************************************************************)
(* Properties of the commands                                              *)
(***************************************************************************)
\* C19: when the run or test command has ended, by a return or by the
\* hand-over to the exec command, and had created its sandbox, the
\* sandbox's cleanup has run.
C19_CleanupOnEveryEnding ==
    (process # "running" /\ box # <<>>) => box[1].cleaned

(***************************************************************************)
(* run_solutions (box/solutions.py): every tracked solution on every       *)
(* testcase of every group, and the files written under the runs directory *)
(***************************************************************************)
MaxSolutions == 2

GroupNames == {"samples", "main"}

\* the groups of a package: distinct names, each with its built testcases
TestcaseGroups ==
    {g \in UNION {[1..n -> [name : GroupNames, tests : 0..MaxTests]] : n \in 0..2} :
        \A a, b \in 1..Len(g) : a # b => g[a].name # g[b].name}

\* find_built_testcases(group): the outputPath.name of the testcase of
\* index i, a function of the index ending in ".out"
built_output_name(i) == [stem |-> i, suffix |-> ".out"]

\* pathlib's with_suffix on a file name
with_suffix(name, suffix) == [name EXCEPT !.suffix = suffix]

output_path_c20(index, group_name, name) == <<0, group_name, name>>

\* runs_dir / f'{index}' / group.name / testcase.outputPath.name
output_path(index, group_name, name) == <<index, group_name, name>>

error_path(out) == [out EXCEPT ![3] = with_suffix(@, ".err")]

log_path(out) == [out EXCEPT ![3] = with_suffix(@, ".log")]

Tracked(i) == IF tracked_solutions = <<>> THEN TRUE ELSE i \in tracked_solutions[1]

compile_tracked_c21(i) ==
    IF Tracked(i) THEN << <<"solution", i>>, <<"solution", i>> >> ELSE <<>>

\* compile_solutions, lines 37-45: the compile_item calls for the solution
\* of index i
compile_tracked(i) == IF Tracked(i) THEN << <<"solution", i>> >> ELSE <<>>

\* the compile_item calls for the solutions up to the one of index last
RECURSIVE tracked_upto(_, _)
tracked_upto(i, last) ==
    IF i > last THEN <<>>
    ELSE compile_tracked(i) \o tracked_upto(i + 1, last)

InitRun ==
    /\ pc = "compile_checker"
    /\ \E n \in 1..MaxSolutions :
         /\ pkg \in [solutions : {n}, testcases : TestcaseGroups]
         /\ tracked_solutions \in Opt(SUBSET (0..(n - 1)))
    /\ compilations = <<>>
    /\ sol_index = 0
    /\ group_index = 0
    /\ test_index = 0
    /\ writes = <<>>
    /\ res = <<>>
    /\ run_results = <<>>
    /\ trace = <<>>
    /\ NotRunIdle

\* run_solutions, line 134: compile_checker() returns the digest or raises
CompileChecker ==
    /\ pc = "compile_checker"
    /\ compilations' = Append(compilations, <<"checker">>)
    /\ \E done \in BOOLEAN : pc' = IF done THEN "compile_solutions" ELSE "raised"
    /\ UNCHANGED <<pkg, tracked_solutions, sol_index, group_index, test_index, writes,
                   res, run_results, trace>>
    /\ UNCHANGED not_run_vars

\* compile_solutions(): the tracked solutions are compiled in package
\* order; the first failure is raised again
CompileSolutions ==
    /\ pc = "compile_solutions"
    /\ \/ /\ compilations' = compilations \o tracked_upto(0, pkg.solutions - 1)
          /\ pc' = "next_solution"
       \/ \E failed \in 0..(pkg.solutions - 1) :
            /\ Tracked(failed)
            /\ compilations' = compilations \o tracked_upto(0, failed)
            /\ pc' = "raised"
    /\ UNCHANGED <<pkg, tracked_solutions, sol_index, group_index, test_index, writes,
                   res, run_results, trace>>
    /\ UNCHANGED not_run_vars

\* run_solutions, lines 140-146: a solution that is not tracked is skipped
SkipSolution ==
    /\ pc = "next_solution"
    /\ sol_index < pkg.solutions
    /\ ~Tracked(sol_index)
    /\ sol_index' = sol_index + 1
    /\ run_results' = Append(run_results, <<>>)
    /\ UNCHANGED <<pc, pkg, tracked_solutions, compilations, group_index, test_index,
                   writes, res, trace>>
    /\ UNCHANGED not_run_vars

\* run_solutions, lines 147-154, run_solution lines 56-75
StartSolution ==
    /\ pc = "next_solution"
    /\ sol_index < pkg.solutions
    /\ Tracked(sol_index)
    /\ group_index' = 1
    /\ test_index' = 0
    /\ res' = <<>>
    /\ pc' = "testcase"
    /\ UNCHANGED <<pkg, tracked_solutions, compilations, sol_index, writes,
                   run_results, trace>>
    /\ UNCHANGED not_run_vars

res_append_c22(r, name, eval) ==
    [n \in DOMAIN r \cup {name} |->
        IF n = name THEN <<eval>> \o (IF n \in DOMAIN r THEN r[n] ELSE <<>>) ELSE r[n]]

\* res[group.name].append(eval) on the defaultdict(list) of run_solution
res_append(r, name, eval) ==
    [n \in DOMAIN r \cup {name} |->
        IF n = name THEN Append(IF n \in DOMAIN r THEN r[n] ELSE <<>>, eval) ELSE r[n]]

\* run_solution, lines 79-122, for one testcase: the run writes the
\* solution's stdout and stderr, check() gives the result, then the
\* Evaluation is written to its log and appended to res (a run that
\* gave no run log is the subject of Spec)
RunTestcase ==
    /\ pc = "testcase"
    /\ group_index <= Len(pkg.testcases)
    /\ test_index < pkg.testcases[group_index].tests
    /\ LET group == pkg.testcases[group_index]
           key == <<sol_index, group_index, test_index>>
           out == output_path(sol_index, group.name, built_output_name(test_index))
       IN /\ writes' = writes \o
            <<[path |-> out, kind |-> "stdout", key |-> key],
              [path |-> error_path(out), kind |-> "stderr", key |-> key],
              [path |-> log_path(out), kind |-> "log", key |-> key]>>
          /\ trace' = trace \o << <<"run", key>>, <<"check", key>>, <<"persist", key>> >>
          /\ res' = res_append(res, group.name,
                                [index |-> test_index, log |-> log_path(out)])
    /\ test_index' = test_index + 1
    /\ UNCHANGED <<pc, pkg, tracked_solutions, compilations, sol_index, group_index,
                   run_results>>
    /\ UNCHANGED not_run_vars

\* run_solution, line 77: the next group
NextGroup ==
    /\ pc = "testcase"
    /\ group_index <= Len(pkg.testcases)
    /\ test_index = pkg.testcases[group_index].tests
    /\ group_index' = group_index + 1
    /\ test_index' = 0
    /\ UNCHANGED <<pc, pkg, tracked_solutions, compilations, sol_index, writes,
                   res, run_results, trace>>
    /\ UNCHANGED not_run_vars

\* run_solution, line 124, run_solutions line 155
EndSolution ==
    /\ pc = "testcase"
    /\ group_index > Len(pkg.testcases)
    /\ sol_index' = sol_index + 1
    /\ run_results' = Append(run_results, res)
    /\ pc' = "next_solution"
    /\ UNCHANGED <<pkg, tracked_solutions, compilations, group_index, test_index,
                   writes, res, trace>>
    /\ UNCHANGED not_run_vars

\* run_solutions, line 157
ReturnResults ==
    /\ pc = "next_solution"
    /\ sol_index = pkg.solutions
    /\ pc' = "returned"
    /\ UNCHANGED run_vars
    /\ UNCHANGED not_run_vars

NextRun ==
    \/ CompileChecker \/ CompileSolutions \/ SkipSolution \/ StartSolution
    \/ RunTestcase \/ NextGroup \/ EndSolution \/ ReturnResults

SpecRun == InitRun /\ [][NextRun]_vars

(***************************************************************************)
(* Properties of run_solutions                                             *)
(***************************************************************************)
LogWrites(key) == {a \in 1..Len(writes) : writes[a].kind = "log" /\ writes[a].key = key}

Running == pc \in {"next_solution", "testcase", "returned"}

\* C21: the checker and every tracked solution are compiled at most once,
\* and exactly once before any solution runs; when a compilation fails
\* the invocation raises and no solution has run on any testcase.
C21_CompiledOnceBeforeRuns ==
    /\ \A a, b \in 1..Len(compilations) : a # b => compilations[a] # compilations[b]
    /\ (Running \/ writes # <<>>) =>
          /\ compilations[1] = <<"checker">>
          /\ \A i \in 0..(pkg.solutions - 1) :
                Tracked(i) <=> \E a \in 2..Len(compilations) : compilations[a] = <<"solution", i>>
    /\ pc = "raised" => writes = <<>>

C21_Witness ==
    /\ pc = "raised"
    /\ compilations = << <<"checker">>, <<"solution", 0>>, <<"solution", 1>> >>
    /\ writes = <<>>

\* whether key a comes before key b in package order, for one solution
Before(a, b) == a[2] < b[2] \/ (a[2] = b[2] /\ a[3] < b[3])

Steps == <<"run", "check", "persist">>

C23_WrappedFileUnchanged ==
    [][/\ wrapped_content' = wrapped_content
       /\ truncator'.fobj.len = truncator.fobj.len
       /\ (trunc_call' # <<>> /\ trunc_call'[1].op = "write")
             => truncator_ret' = <<UnsupportedOperation>>]_vars

C23_Witness ==
    /\ trunc_call # <<>>
    /\ trunc_call[1] = [op |-> "write", args |-> << <<0>> >>]
    /\ truncator_ret = <<UnsupportedOperation>>
    /\ truncator.fobj.pos = 1
    /\ wrapped_content = <<0, 1, 2>>

\* C24: the process-count ceiling of a sandbox is 1 when no
\* set_multiprocess call was made or the last one passed False, and 1000
\* when the last one passed True.
C24_ProcessCeiling ==
    pc = "sandbox" =>
      params.max_processes =
        IF multiprocess # <<>> /\ multiprocess[Len(multiprocess)] THEN 1000 ELSE 1

\* the ceiling is back to 1 after calls with True, then False
C24_Witness ==
    /\ pc = "sandbox"
    /\ multiprocess = <<TRUE, TRUE, FALSE>>
    /\ params.max_processes = 1

\* C27: the double-TL warning is printed only when the verification level
\* is FULL or higher and the solution's maximum time is strictly between
\* the time limit and twice it, and never for a solution reported FAILED.
C27_WarningOnlyForPassingSlack ==
    (Reported /\ report[1].warning) =>
      /\ verification >= VL_FULL
      /\ report[1].time > TimeLimit
      /\ report[1].time < 2 * TimeLimit
      /\ report[1].status # "FAILED"

(***************************************************************************)
(* print_run_report (box/solutions.py): the report over all the solutions  *)
(***************************************************************************)
ReportedOutcomes == {"ACCEPTED", "WRONG_ANSWER"}

\* an Evaluation as the report reads it: its outcome and its time
ReportEvaluation(outcome) ==
    [result |-> [outcome |-> outcome], log |-> <<[time |-> 0]>>]

\* the dicts run_solutions returns for a solution: {} or the Evaluations
\* of its groups, here of one group
EvalsPerGroup ==
    {<<>>} \cup
    UNION {{[main |-> evs] : evs \in [1..n -> {ReportEvaluation(o) : o \in ReportedOutcomes}]} :
             n \in 1..MaxTests}

\* all_evals: the Evaluations of every group, one after the other
all_evals(evals_per_group) ==
    IF evals_per_group = <<>> THEN <<>> ELSE evals_per_group.main

and_outcome_c26(before, solution_, evs, timeLimit, verification_) ==
    LET r == _print_solution_outcome(solution_, evs, timeLimit, verification_)
    IN [ok |-> r.returned, lines |-> <<r>>]

\* ok = ok and _print_solution_outcome(...): the call is made only when ok
\* is still True
and_outcome(before, solution_, evs, timeLimit, verification_) ==
    IF before
      THEN LET r == _print_solution_outcome(solution_, evs, timeLimit, verification_)
           IN [ok |-> r.returned, lines |-> <<r>>]
      ELSE [ok |-> FALSE, lines |-> <<>>]

InitReport ==
    /\ pc = "report_loop"
    /\ verification \in VerificationLevel
    /\ \E n \in 1..MaxSolutions :
         /\ solutions \in [1..n -> [outcome : ReportedOutcomes]]
         /\ evals_per_solution \in [1..n -> EvalsPerGroup]
    /\ s_index = 0
    /\ ok = TRUE
    /\ printed = <<>>
    /\ report_ret = <<>>
    /\ GradingRestIdle /\ MergeIdle /\ TruncIdle /\ FileIdle /\ CmdIdle /\ RunIdle
    /\ BuilderIdle

\* print_run_report, lines 256-257: a solution without evaluations
SkipEmpty ==
    /\ pc = "report_loop"
    /\ s_index < Len(solutions)
    /\ evals_per_solution[s_index + 1] = <<>>
    /\ s_index' = s_index + 1
    /\ UNCHANGED <<pc, solutions, evals_per_solution, ok, printed, report_ret>>
    /\ UNCHANGED not_report_vars

\* print_run_report, lines 258-279: the header, the groups and the
\* outcome of one solution
ReportSolution ==
    /\ pc = "report_loop"
    /\ s_index < Len(solutions)
    /\ evals_per_solution[s_index + 1] # <<>>
    /\ LET r == and_outcome(ok, solutions[s_index + 1],
                            all_evals(evals_per_solution[s_index + 1]),
                            TimeLimit, verification)
       IN /\ ok' = r.ok
          /\ printed' = printed
                \o <<[s |-> s_index, kind |-> "solution"]>>
                \o <<[s |-> s_index, kind |-> "groups"]>>
                \o [k \in 1..Len(r.lines) |->
                      [s |-> s_index, kind |-> "outcome", status |-> r.lines[k].status]]
    /\ s_index' = s_index + 1
    /\ UNCHANGED <<pc, solutions, evals_per_solution, report_ret>>
    /\ UNCHANGED not_report_vars

\* print_run_report, line 281
ReturnReport ==
    /\ pc = "report_loop"
    /\ s_index = Len(solutions)
    /\ report_ret' = <<ok>>
    /\ pc' = "reported"
    /\ UNCHANGED <<solutions, evals_per_solution, s_index, ok, printed>>
    /\ UNCHANGED not_report_vars

NextReport == SkipEmpty \/ ReportSolution \/ ReturnReport

SpecReport == InitReport /\ [][NextReport]_vars

(***************************************************************************)
(* Properties of print_run_report                                          *)
(***************************************************************************)
Evaluated == {k \in 1..Len(solutions) : evals_per_solution[k] # <<>>}

VerdictsOf(k) ==
    {all_evals(evals_per_solution[k])[j].result.outcome :
        j \in 1..Len(all_evals(evals_per_solution[k]))}

\* C25: when print_run_report has returned, the outcome line of every
\* solution with at least one evaluation was printed, whatever the
\* outcome of the solutions before it.
C25_EveryOutcomePrinted ==
    pc = "reported" =>
      \A k \in Evaluated :
        \E j \in 1..Len(printed) : printed[j].kind = "outcome" /\ printed[j].s = k - 1

\* C26 as stated: print_run_report returns True iff every solution with
\* at least one evaluation has no verdict its declaration does not match.
C26_TrueIffNoUnmatchedVerdict ==
    pc = "reported" =>
      (report_ret[1] <=>
         \A k \in Evaluated : \A v \in VerdictsOf(k) : match(solutions[k].outcome, v))

\* C26, amended: print_run_report returns True iff every solution with at
\* least one evaluation has no verdict other than ACCEPTED that its
\* declaration does not match; solutions with an empty map have no part.
C26_TrueIffNoUnmatchedBadVerdict ==
    pc = "reported" =>
      (report_ret[1] <=>
         \A k \in Evaluated :
           \A v \in VerdictsOf(k) \ {"ACCEPTED"} : match(solutions[k].outcome, v))

C26_Witness ==
    /\ pc = "reported"
    /\ Len(solutions) = 2
    /\ evals_per_solution[1] = <<>>
    /\ solutions[2].outcome = "ACCEPTED"
    /\ VerdictsOf(2) = {"ACCEPTED", "WRONG_ANSWER"}
    /\ report_ret = <<FALSE>>


(***************************************************************************)
(* Properties of create_file and of the staging through the file cacher    *)
(***************************************************************************)
IsCall(op) == file_call' # <<>> /\ file_call'[1].op = op

\* the first min(n, length) bytes of a content, all of it when n is None
FirstBytes(content, n) ==
    IF n = <<>> THEN content ELSE SubSeq(content, 1, Min(n[1], Len(content)))

C29_StorageRoundTrip ==
    /\ [][(IsCall("get_file_to_storage") /\ file_ret' # <<Raised>>) =>
            LET t == real_file(file_call'[1].path)[1] IN
            /\ fs' = fs
            /\ file_ret'[1] \in DOMAIN storage'
            /\ storage'[file_ret'[1]] =
                 FirstBytes(fs[t][1].content, file_call'[1].trunc_len)]_vars
    /\ [][/\ DOMAIN storage \subseteq DOMAIN storage'
          /\ \A d \in DOMAIN storage : storage'[d] = storage[d]]_vars
    /\ [][(IsCall("create_file_from_storage") /\ file_ret' # <<Raised>>) =>
            LET t == real_file(file_call'[1].path)[1] IN
            /\ fs'[t] # <<>>
            /\ fs'[t][1].content = storage[file_call'[1].digest]]_vars

\* a file was stored truncated to a proper non-empty prefix and a file
\* created from that digest holds exactly that prefix
C29_Witness ==
    /\ file_call # <<>>
    /\ file_call[1].op = "create_file_from_storage"
    /\ file_ret = <<"None">>
    /\ Len(storage[file_call[1].digest]) \in 1..(MaxLen - 1)
    /\ fs[touched[1]][1].content = storage[file_call[1].digest]
    /\ \E u \in FilePaths \ {touched[1]} : fs[u] = <<File(Data, FALSE)>>


(***************************************************************************)
(* Statement builders (robox/box/statements): get_implicit_builders        *)
(***************************************************************************)
MaxBuilders == 2

StatementType == {"roboxTeX", "TeX", "JinjaTeX", "PDF"}

\* a StatementBuilder, by its input_type() and output_type()
StatementBuilder == [input_type : StatementType, output_type : StatementType]

TeX2PDFBuilder == [input_type |-> "TeX", output_type |-> "PDF"]
JinjaTeXBuilder == [input_type |-> "JinjaTeX", output_type |-> "TeX"]
roboxTeXBuilder == [input_type |-> "roboxTeX", output_type |-> "TeX"]

BUILDER_LIST == <<TeX2PDFBuilder, JinjaTeXBuilder, roboxTeXBuilder>>

\* the builder lists get_implicit_builders is run on
BuilderLists ==
    {BUILDER_LIST} \cup UNION {[1..n -> StatementBuilder] : n \in 0..MaxBuilders}

\* the builders _iterate() can take: their input type is in par, their
\* output type is not
Candidates(list, p) ==
    {i \in 1..Len(list) :
       list[i].input_type \in DOMAIN p /\ list[i].output_type \notin DOMAIN p}

iterate_c30(list, p) ==
    LET c == {i \in 1..Len(list) : list[i].output_type \notin DOMAIN p} IN
    IF c = {} THEN [par |-> p, ret |-> FALSE]
    ELSE LET i == CHOOSE j \in c : \A k \in c : j <= k
             v == list[i].output_type
         IN [par |-> [t \in DOMAIN p \cup {v} |-> IF t = v THEN <<i>> ELSE p[t]],
             ret |-> TRUE]

\* _iterate(): the first builder of the list that can be taken is recorded
\* as the parent of its output type
iterate(list, p) ==
    LET c == Candidates(list, p) IN
    IF c = {} THEN [par |-> p, ret |-> FALSE]
    ELSE LET i == CHOOSE j \in c : \A k \in c : j <= k
             v == list[i].output_type
         IN [par |-> [t \in DOMAIN p \cup {v} |-> IF t = v THEN <<i>> ELSE p[t]],
             ret |-> TRUE]

\* list(reversed(res))
reversed(s) == [i \in 1..Len(s) |-> s[Len(s) + 1 - i]]

InitBuilders ==
    /\ pc = "iterate"
    /\ builder_list \in BuilderLists
    /\ input_type \in StatementType
    /\ output_type \in StatementType
    /\ par = [t \in {input_type} |-> <<>>]
    /\ cur = output_type
    /\ chain = <<>>
    /\ builders_ret = <<>>
    /\ NotBuilderIdle

\* line 72: one turn of `while _iterate() and output_type not in par`
Iterate ==
    /\ pc = "iterate"
    /\ LET it == iterate(builder_list, par) IN
       /\ par' = it.par
       /\ pc' = IF it.ret /\ output_type \notin DOMAIN it.par
                  THEN "iterate" ELSE "iterated"
    /\ UNCHANGED <<builder_list, input_type, output_type, cur, chain,
                   builders_ret, not_builder_vars>>

\* lines 75-76: the output type was not reached
ReturnNone ==
    /\ pc = "iterated"
    /\ output_type \notin DOMAIN par
    /\ builders_ret' = <<[none |-> TRUE, builders |-> <<>>]>>
    /\ pc' = "returned"
    /\ UNCHANGED <<builder_list, input_type, output_type, par, cur, chain,
                   not_builder_vars>>

\* lines 78-79: the walk back starts at the output type
StartWalk ==
    /\ pc = "iterated"
    /\ output_type \in DOMAIN par
    /\ cur' = output_type
    /\ chain' = <<>>
    /\ pc' = "walk"
    /\ UNCHANGED <<builder_list, input_type, output_type, par, builders_ret,
                   not_builder_vars>>

\* lines 80-82: one turn of `while par[cur] is not None`; a type that is
\* not a key of par raises KeyError
Walk ==
    /\ pc = "walk"
    /\ IF cur \notin DOMAIN par
         THEN /\ builders_ret' = <<[none |-> FALSE, builders |-> <<>>,
                                    raised |-> TRUE]>>
              /\ pc' = "returned"
              /\ UNCHANGED <<cur, chain>>
         ELSE /\ par[cur] # <<>>
              /\ chain' = Append(chain, par[cur][1])
              /\ cur' = builder_list[par[cur][1]].input_type
              /\ UNCHANGED <<pc, builders_ret>>
    /\ UNCHANGED <<builder_list, input_type, output_type, par, not_builder_vars>>

\* line 84
ReturnBuilders ==
    /\ pc = "walk"
    /\ cur \in DOMAIN par
    /\ par[cur] = <<>>
    /\ builders_ret' = <<[none |-> FALSE, builders |-> reversed(chain)]>>
    /\ pc' = "returned"
    /\ UNCHANGED <<builder_list, input_type, output_type, par, cur, chain,
                   not_builder_vars>>

NextBuilders == Iterate \/ ReturnNone \/ StartWalk \/ Walk \/ ReturnBuilders

SpecBuilders ==
    InitBuilders /\ [][NextBuilders]_vars /\ WF_vars(NextBuilders)

(***************************************************************************)
(* Properties of get_implicit_builders                                     *)
(***************************************************************************)
\* the types that chains of builders of the list lead to from a set of types
RECURSIVE ReachableFrom(_, _)
ReachableFrom(list, S) ==
    LET T == S \cup {list[i].output_type :
                       i \in {j \in 1..Len(list) : list[j].input_type \in S}}
    IN IF T = S THEN S ELSE ReachableFrom(list, T)

\* a list of builders that leads from type a to type b
IsChain(list, bs, a, b) ==
    /\ \A i \in 1..Len(bs) : bs[i] \in 1..Len(list)
    /\ IF bs = <<>> THEN a = b
       ELSE /\ list[bs[1]].input_type = a
            /\ list[bs[Len(bs)]].output_type = b
            /\ \A i \in 1..(Len(bs) - 1) :
                 list[bs[i]].output_type = list[bs[i + 1]].input_type

\* C30: get_implicit_builders returns, whatever the builder list and the
\* two types; it returns None exactly when no chain of builders leads from
\* the input type to the output type; otherwise it returns builders of the
\* list of which the first takes the input type, the last gives the output
\* type and each gives what the next takes, and none when the types are
\* equal.
C30_ImplicitBuildersChain ==
    /\ <>(pc = "returned")
    /\ [](pc = "returned" =>
            /\ builders_ret # <<>>
            /\ DOMAIN builders_ret[1] = {"none", "builders"}
            /\ builders_ret[1].none <=>
                 output_type \notin ReachableFrom(builder_list, {input_type})
            /\ ~builders_ret[1].none =>
                 /\ IsChain(builder_list, builders_ret[1].builders,
                            input_type, output_type)
                 /\ input_type = output_type => builders_ret[1].builders = <<>>)

\* a chain of two builders was returned
C30_Witness ==
    /\ pc = "returned"
    /\ ~builders_ret[1].none
    /\ Len(builders_ret[1].builders) = 2

=============================================================================
